---- MODULE Spec2Model ----
(***************************************************************************)
(* Model of the chunked export pipeline of FlexibleETL: the four saver     *)
(* strategies (strategies/saver_strategy.py), compression normalisation    *)
(* (config/config.py) and the metrics callback of ETLBase                  *)
(* (etl/etl_base.py).                                                      *)
(*                                                                         *)
(* A RowBatch is modelled by its row count; row number i of batch b        *)
(* written by run r is the line <<"R", r, b, i>>, so that rows are         *)
(* pairwise distinct and order, loss and duplication are observable.       *)
(* A header line written together with batch b is <<"H", r, b, 0>>.        *)
(***************************************************************************)
EXTENDS Integers, Sequences, FiniteSets, TLC

\* ---------------------------------------------------------------- bounds
MaxBatches == 3
MaxRows == 2
MaxRuns == 2

\* ------------------------------------------------- python values (str/None)
\* A Python value that is either None or a str; a str is a sequence of
\* one-character strings.
PyNone == [isNone |-> TRUE, s |-> <<>>]

PyStr(chars) == [isNone |-> FALSE, s |-> chars]

\* str.lower() on one character of the alphabet used by the inputs.
LowerChar(c) ==
    CASE c = "N" -> "n"
      [] c = "O" -> "o"
      [] c = "E" -> "e"
      [] c = "U" -> "u"
      [] c = "L" -> "l"
      [] OTHER -> c

\* str.lower()
Lower(chars) == [i \in 1..Len(chars) |-> LowerChar(chars[i])]

RECURSIVE LStrip(_)
\* str.lstrip() for the blank character
LStrip(chars) ==
    IF chars # <<>> /\ Head(chars) = " " THEN LStrip(Tail(chars)) ELSE chars

RECURSIVE RStrip(_)
\* str.rstrip() for the blank character
RStrip(chars) ==
    IF chars # <<>> /\ chars[Len(chars)] = " "
    THEN RStrip(SubSeq(chars, 1, Len(chars) - 1))
    ELSE chars

\* str.strip()
Strip(chars) == RStrip(LStrip(chars))

\* The literals of the tuple ("none", "null", "") tested by normalize_compression.
NoneLiterals == { <<"n","o","n","e">>, <<"n","u","l","l">>, <<>> }

\* config.normalize_compression
normalize_compression(value) ==
    IF value.isNone THEN PyNone
    ELSE IF Lower(Strip(value.s)) \in NoneLiterals THEN PyNone
    ELSE value

INFER == PyStr(<<"i","n","f","e","r">>)
GZIP == PyStr(<<"g","z","i","p">>)

\* The compression values a job is submitted with.
CompressionInputs ==
    { PyNone,
      PyStr(<<>>),
      PyStr(<<"n","o","n","e">>),
      PyStr(<<"N","o","n","e">>),
      PyStr(<<"N","O","N","E">>),
      PyStr(<<"n","u","l","l">>),
      PyStr(<<"N","U","L","L">>),
      PyStr(<<" ","n","o","n","e"," ">>),
      INFER,
      GZIP }

\* Python truthiness of an Optional[str]
Truthy(value) == ~value.isNone /\ value.s # <<>>

\* ------------------------------------------------------------ data, files
Formats == {"csv", "xlsx", "json", "parquet"}

\* Every sequence of at most MaxBatches batches of at most MaxRows rows.
BatchSeqs == UNION { [1..k -> 0..MaxRows] : k \in 0..MaxBatches }

HeaderLine(r, b) == <<"H", r, b, 0>>

RowLine(r, b, i) == <<"R", r, b, i>>

\* The data rows of batch b (n rows) written by run r, in order.
Rows(r, b, n) == [i \in 1..n |-> RowLine(r, b, i)]

NoFile == [exists |-> FALSE, lines |-> <<>>, codec |-> PyNone]

\* A file left at the destination by something else than the modelled runs.
OldFile == [exists |-> TRUE, lines |-> << HeaderLine(0, 1), RowLine(0, 1, 1) >>,
            codec |-> PyNone]

IsRow(line) == line[1] = "R"

RECURSIVE SelectRows(_)
\* The data rows of a file's lines (reading the file back, header dropped).
SelectRows(lines) ==
    IF lines = <<>> THEN <<>>
    ELSE IF IsRow(Head(lines)) THEN <<Head(lines)>> \o SelectRows(Tail(lines))
    ELSE SelectRows(Tail(lines))

RECURSIVE SumSeq(_)
SumSeq(q) == IF q = <<>> THEN 0 ELSE Head(q) + SumSeq(Tail(q))

Max2(a, b) == IF a >= b THEN a ELSE b

\* ------------------------------------------------------------------ state
VARIABLES
    data,           \* the batch sequence handed to save (row count per batch)
    export_format,  \* ETLBase.export_format
    compression,    \* ETLBase.compression, as submitted
    run,            \* number of the current run against the destination path
    fs,             \* the file at the destination path
    pc,             \* position of the current save call
    idx,            \* number of batches requested from the sequence so far
    comp,           \* save's local variable compression
    mode,           \* save's local variable mode
    header,         \* CsvSaver.save's local variable header
    startrow,       \* ExcelSaver.save's local variable startrow
    total_rows,     \* save's local variable total_rows
    writer,         \* the pd.ExcelWriter session of ExcelSaver.save
    metrics,        \* ETLBase.metrics
    error,          \* the exception save raised, "" when none
    handed,         \* compression argument of the latest write-primitive call
    fs_at_call,     \* history: the file at the destination when save was called
    events,         \* history of the current save call: <<kind, batch>>
    gen,            \* state of the generator extract() returned
    rpc,            \* position of ETLBase.run
    filename,       \* ETLBase.filename: "None" or "path"
    send_email,     \* ETLBase.send_email
    send_telegram,  \* ETLBase.send_telegram
    source,         \* what extract's body found: query text, query file, database
    instances,      \* number of strategy objects the container has created
    saver,          \* the strategy object load resolved (0: none)
    etl_exc,        \* the exception extract/transform/load raised, "" when none
    exit_exc,       \* the exception run() raised to its caller, "" when none
    report,         \* what _send_report did
    rlog,           \* history of the run: <<kind, detail>>
    observers,      \* NotificationSubject._observers
    notified,       \* the latest NotificationSubject.notify call
    attached_at,    \* history: when each handler was attached (0: not attached)
    nclock,         \* history: number of subject operations so far
    clock,          \* the wall clock, in whole seconds
    names,          \* the artifact name each of two jobs derived
    files,          \* the output directory: <<artifact name, job that wrote it>>
    exit_code,      \* exit code of the CLI process (-1: still running)
    eh,             \* the current call of an error_handler-wrapped function
    session         \* the database session of UnitOfWork.session_scope

\* The variables of the output directory, the CLI process and a wrapped call.
extra == << clock, names, files, exit_code, eh >>

\* The variables outside the save call.
outer == << rpc, filename, send_email, send_telegram, source, instances,
            saver, etl_exc, exit_exc, report, rlog, observers, notified,
            attached_at, nclock, extra >>

vars == << data, export_format, compression, run, fs, pc, idx, comp, mode,
           header, startrow, total_rows, writer, metrics, error, handed,
           fs_at_call, events, gen, session, outer >>

\* open: inside the `with pd.ExcelWriter` block; handle: the writer's file
\* handle on the destination is open.
NoWriter == [open |-> FALSE, sheet |-> FALSE, cells |-> <<>>, handle |-> FALSE]

NotHanded == PyStr(<<"-">>)

\* ---------------------------------------------------------- notifications
\* An Observer object: its class and whether its configuration is complete
\* (all(self.email_config.values()) / all(self.tg_config.values())).
\* kind "base" is an Observer that does not override update.
Handler(i, k, c) == [id |-> i, kind |-> k, configured |-> c]

\* The handler objects the subject operations are exercised with.
HandlerPool ==
    { Handler(1, "email", TRUE), Handler(2, "email", FALSE),
      Handler(3, "telegram", TRUE), Handler(4, "telegram", FALSE),
      Handler(5, "base", TRUE) }

\* NotificationSubject.attach on the list obs
attach(obs, h) ==
    IF \E i \in 1..Len(obs) : obs[i] = h THEN obs ELSE Append(obs, h)

\* NotificationSubject.detach on the list obs (list.remove: first occurrence)
detach(obs, h) ==
    IF \E i \in 1..Len(obs) : obs[i] = h
    THEN LET k == CHOOSE i \in 1..Len(obs) :
                      obs[i] = h /\ \A j \in 1..(i - 1) : obs[j] # h
         IN SubSeq(obs, 1, k - 1) \o SubSeq(obs, k + 1, Len(obs))
    ELSE obs

\* An update that does not look at its configuration.
Attempts_unchecked(h) == h.kind # "base"

\* Whether update of h attempts a delivery (SMTP / HTTP request).
Attempts(h) == h.kind # "base" /\ h.configured

\* What update of h does: Observer.update raises; EmailObserver.update and
\* TelegramObserver.update return False on an incomplete configuration,
\* else True when the delivery succeeds and False when it raises inside.
\* ok is the set of handlers whose delivery succeeds.
UpdateResult(h, ok) ==
    IF h.kind = "base" THEN "raise"
    ELSE IF ~Attempts(h) THEN "False"
    ELSE IF h \in ok THEN "True"
    ELSE "False"

RECURSIVE NotifyCalls(_, _)
\* NotificationSubject.notify: the update calls made, in order, each with its
\* outcome and whether a delivery was attempted; an update that raises ends
\* the loop.
NotifyCalls(obs, ok) ==
    IF obs = <<>> THEN <<>>
    ELSE IF UpdateResult(Head(obs), ok) = "raise"
         THEN << << Head(obs), "raise", FALSE >> >>
         ELSE << << Head(obs), UpdateResult(Head(obs), ok),
                    Attempts(Head(obs)) >> >>
              \o NotifyCalls(Tail(obs), ok)

\* Whether the notify call whose update calls are `calls` raised.
NotifyRaised(calls) == calls # <<>> /\ calls[Len(calls)][2] = "raise"

NoNotify == [done |-> FALSE, calls |-> <<>>, raised |-> FALSE]

\* sql_text: an inline query text is given; file_exists / file_readable: the
\* state of the query file; checked / opened: what extract did with the file.
NoSource == [known |-> FALSE, sql_text |-> FALSE, file_exists |-> FALSE,
             file_readable |-> FALSE, db_up |-> FALSE, checked |-> FALSE,
             opened |-> FALSE]

NoReport == [calls |-> 0, created |-> <<>>, dispatched |-> FALSE,
             observers |-> <<>>, results |-> <<>>, exc |-> ""]

\* No artifact name derived, no CLI exit, no wrapped call in progress, no
\* database session.
NoName == [stamp |-> 0, format |-> "", ext |-> PyNone]

NoCall == [pos |-> "none", retries |-> 0, notify |-> FALSE, attempts |-> <<>>,
           trace |-> <<>>]

Jobs == {1, 2}

\* tx: "none" (no session created), "open", "committed" or "rolled_back";
\* closed: session.close() was called.
NoSession == [tx |-> "none", closed |-> FALSE]

\* session_scope left: after the yield the transaction is committed, on an
\* exception it is rolled back; the session is closed in the finally block.
SessionEnded(how) == [tx |-> how, closed |-> TRUE]

ExtraIdle ==
    /\ clock = 0
    /\ names = [j \in Jobs |-> NoName]
    /\ files = {}
    /\ exit_code = -1
    /\ eh = NoCall
    /\ session = NoSession

\* The variables outside the save call while only save is exercised: save is
\* handed a plain iterator.
OuterIdle ==
    /\ rpc = "saving"
    /\ filename = "path"
    /\ send_email = FALSE
    /\ send_telegram = FALSE
    /\ source = NoSource
    /\ instances = 0
    /\ saver = 0
    /\ etl_exc = ""
    /\ exit_exc = ""
    /\ report = NoReport
    /\ rlog = <<>>
    /\ observers = <<>>
    /\ notified = NoNotify
    /\ attached_at = [h \in HandlerPool |-> 0]
    /\ nclock = 0
    /\ ExtraIdle

\* State after ETLBase.__init__, at the call of save by load.
Init ==
    /\ data \in BatchSeqs
    /\ export_format \in Formats
    /\ compression \in CompressionInputs
    /\ run = 1
    /\ fs \in {NoFile, OldFile}
    /\ pc = "call"
    /\ idx = 0
    /\ comp = compression
    /\ mode = "w"
    /\ header = TRUE
    /\ startrow = 0
    /\ total_rows = 0
    /\ writer = NoWriter
    /\ metrics = [rows_processed |-> 0, memory_usage |-> <<>>]
    /\ error = ""
    /\ handed = NotHanded
    /\ fs_at_call = fs
    /\ events = <<>>
    /\ gen = "list"
    /\ OuterIdle

\* ------------------------------------------------------ write primitives
\* The lines one DataFrame.to_csv call emits for batch b of n rows.
CsvLines(r, b, n, hdr) ==
    (IF hdr THEN << HeaderLine(r, b) >> ELSE <<>>) \o Rows(r, b, n)

\* DataFrame.to_csv(path, mode, header, compression): mode "w" truncates,
\* mode "a" appends (a further compressed member when a codec is given).
to_csv(file, r, b, n, m, hdr, c) ==
    [exists |-> TRUE,
     lines |-> IF m = "w" \/ ~file.exists THEN CsvLines(r, b, n, hdr)
               ELSE file.lines \o CsvLines(r, b, n, hdr),
     codec |-> c]

\* DataFrame.to_json(path, orient="records", lines=True, mode, compression):
\* one record per row, each ended by a newline.
to_json(file, r, b, n, m, c) ==
    [exists |-> TRUE,
     lines |-> IF m = "w" \/ ~file.exists THEN Rows(r, b, n)
               ELSE file.lines \o Rows(r, b, n),
     codec |-> c]

\* DataFrame.to_excel(writer, sheet_name="Data", index=False, startrow):
\* the header goes to sheet row startrow, the n data rows to the rows
\* startrow+1 .. startrow+n; cells already filled there are overwritten.
\* Sheet row k is cells[k + 1].
to_excel(cells, r, b, n, srow) ==
    [p \in 1..Max2(Len(cells), srow + n + 1) |->
        IF p = srow + 1 THEN HeaderLine(r, b)
        ELSE IF p > srow + 1 /\ p <= srow + n + 1 THEN RowLine(r, b, p - srow - 1)
        ELSE cells[p]]

\* DataFrame.to_parquet(path, compression, index=False): writes one complete
\* file holding the frame, replacing whatever the path held.
to_parquet(r, b, n, c) ==
    [exists |-> TRUE, lines |-> Rows(r, b, n), codec |-> c]

\* The compression values DataFrame.to_parquet documents.
ParquetDocumented(c) == c = PyNone \/ c = GZIP

\* ------------------------------------------------------------- save: entry
\* CsvSaver.save up to its loop: normalise, unlink the destination, and turn
\* "infer" into no compression.
CsvEnter ==
    /\ pc = "call"
    /\ export_format = "csv"
    /\ comp' = (IF normalize_compression(compression) = INFER THEN PyNone
                ELSE normalize_compression(compression))
    /\ fs' = NoFile
    /\ total_rows' = 0
    /\ mode' = "w"
    /\ header' = TRUE
    /\ pc' = "iter"
    /\ UNCHANGED << data, export_format, compression, run, idx, startrow,
                    writer, metrics, error, handed, fs_at_call, events >>
    /\ UNCHANGED << gen, session, outer >>

\* ExcelEnter with the writer session opened before the compression check.
ExcelEnter_open_first ==
    /\ pc = "call"
    /\ export_format = "xlsx"
    /\ comp' = normalize_compression(compression)
    /\ total_rows' = 0
    /\ writer' = [open |-> TRUE, sheet |-> FALSE, cells |-> <<>>,
                           handle |-> TRUE]
    /\ fs' = [exists |-> TRUE, lines |-> <<>>, codec |-> PyNone]
    /\ startrow' = 0
    /\ IF Truthy(comp') /\ comp' # INFER
       THEN /\ pc' = "raised"
            /\ error' = "ValueError: Excel format doesn't support compression"
       ELSE /\ pc' = "iter"
            /\ UNCHANGED error
    /\ UNCHANGED << data, export_format, compression, run, idx, mode, header,
                    metrics, handed, fs_at_call, events >>
    /\ UNCHANGED << gen, session, outer >>

\* ExcelSaver.save up to its loop: normalise, refuse a compression, open the
\* writer session (pd.ExcelWriter opens the destination for writing at once).
ExcelEnter ==
    /\ pc = "call"
    /\ export_format = "xlsx"
    /\ comp' = normalize_compression(compression)
    /\ IF Truthy(comp') /\ comp' # INFER
       THEN /\ pc' = "raised"
            /\ error' = "ValueError: Excel format doesn't support compression"
            /\ UNCHANGED << fs, writer, total_rows, startrow >>
       ELSE /\ total_rows' = 0
            /\ writer' = [open |-> TRUE, sheet |-> FALSE, cells |-> <<>>,
                           handle |-> TRUE]
            /\ fs' = [exists |-> TRUE, lines |-> <<>>, codec |-> PyNone]
            /\ startrow' = 0
            /\ pc' = "iter"
            /\ UNCHANGED error
    /\ UNCHANGED << data, export_format, compression, run, idx, mode, header,
                    metrics, handed, fs_at_call, events >>
    /\ UNCHANGED << gen, session, outer >>

\* JsonEnter with the first chunk written in append mode.
JsonEnter_append ==
    /\ pc = "call"
    /\ export_format = "json"
    /\ comp' = normalize_compression(compression)
    /\ total_rows' = 0
    /\ mode' = "a"
    /\ pc' = "iter"
    /\ UNCHANGED << data, export_format, compression, run, fs, idx, header,
                    startrow, writer, metrics, error, handed, fs_at_call,
                    events >>
    /\ UNCHANGED << gen, session, outer >>

\* JsonSaver.save up to its loop.
JsonEnter ==
    /\ pc = "call"
    /\ export_format = "json"
    /\ comp' = normalize_compression(compression)
    /\ total_rows' = 0
    /\ mode' = "w"
    /\ pc' = "iter"
    /\ UNCHANGED << data, export_format, compression, run, fs, idx, header,
                    startrow, writer, metrics, error, handed, fs_at_call,
                    events >>
    /\ UNCHANGED << gen, session, outer >>

\* ParquetSaver.save up to its loop: the compression is used as given.
ParquetEnter ==
    /\ pc = "call"
    /\ export_format = "parquet"
    /\ total_rows' = 0
    /\ pc' = "iter"
    /\ UNCHANGED << data, export_format, compression, run, fs, idx, comp,
                    mode, header, startrow, writer, metrics, error, handed,
                    fs_at_call, events >>
    /\ UNCHANGED << gen, session, outer >>

\* -------------------------------------------------------------- save: loop
\* NextChunk with `break` in place of `continue` on an empty batch.
NextChunk_break ==
    /\ pc = "iter"
    /\ idx < Len(data)
    /\ gen # "created"
    /\ idx' = IF data[idx + 1] = 0 THEN Len(data) ELSE idx + 1
    /\ events' = Append(events, <<"req", idx + 1>>)
    /\ pc' = IF data[idx + 1] = 0 THEN "iter" ELSE "write"
    /\ UNCHANGED << data, export_format, compression, run, fs, comp, mode,
                    header, startrow, total_rows, writer, metrics, error,
                    handed, fs_at_call >>
    /\ UNCHANGED << gen, session, outer >>

\* One step of the for loop over _iter_chunks(data): the next batch is
\* requested; an empty one is skipped by `continue`.
NextChunk ==
    /\ pc = "iter"
    /\ idx < Len(data)
    /\ gen # "created"
    /\ idx' = idx + 1
    /\ events' = Append(events, <<"req", idx + 1>>)
    /\ pc' = IF data[idx + 1] = 0 THEN "iter" ELSE "write"
    /\ UNCHANGED << data, export_format, compression, run, fs, comp, mode,
                    header, startrow, total_rows, writer, metrics, error,
                    handed, fs_at_call >>
    /\ UNCHANGED << gen, session, outer >>

\* CsvSaver.save: chunk.to_csv(...)
CsvWrite ==
    /\ pc = "write"
    /\ export_format = "csv"
    /\ fs' = to_csv(fs, run, idx, data[idx], mode, header, comp)
    /\ handed' = comp
    /\ events' = Append(events, <<"write", idx>>)
    /\ pc' = "callback"
    /\ UNCHANGED << data, export_format, compression, run, idx, comp, mode,
                    header, startrow, total_rows, writer, metrics, error,
                    fs_at_call >>
    /\ UNCHANGED << gen, session, outer >>

\* ExcelSaver.save: chunk.to_excel(writer, sheet_name='Data', startrow=startrow)
ExcelWrite ==
    /\ pc = "write"
    /\ export_format = "xlsx"
    /\ writer' = [open |-> TRUE, sheet |-> TRUE,
                  cells |-> to_excel(writer.cells, run, idx, data[idx], startrow),
                  handle |-> TRUE]
    /\ events' = Append(events, <<"write", idx>>)
    /\ pc' = "callback"
    /\ UNCHANGED << data, export_format, compression, run, fs, idx, comp,
                    mode, header, startrow, total_rows, metrics, error,
                    handed, fs_at_call >>
    /\ UNCHANGED << gen, session, outer >>

\* JsonWrite in a save that never calls metrics_callback.
JsonWrite_no_callback ==
    /\ pc = "write"
    /\ export_format = "json"
    /\ fs' = to_json(fs, run, idx, data[idx], mode, comp)
    /\ handed' = comp
    /\ events' = Append(events, <<"write", idx>>)
    /\ pc' = "account"
    /\ UNCHANGED << data, export_format, compression, run, idx, comp, mode,
                    header, startrow, total_rows, writer, metrics, error,
                    fs_at_call >>
    /\ UNCHANGED << gen, session, outer >>

\* JsonSaver.save: chunk.to_json(...)
JsonWrite ==
    /\ pc = "write"
    /\ export_format = "json"
    /\ fs' = to_json(fs, run, idx, data[idx], mode, comp)
    /\ handed' = comp
    /\ events' = Append(events, <<"write", idx>>)
    /\ pc' = "callback"
    /\ UNCHANGED << data, export_format, compression, run, idx, comp, mode,
                    header, startrow, total_rows, writer, metrics, error,
                    fs_at_call >>
    /\ UNCHANGED << gen, session, outer >>

\* ParquetSaver.save: chunk.to_parquet(filepath, compression=compression).
\* For a compression value the primitive does not document, the engine in
\* use decides whether the call writes or raises.
ParquetWrite ==
    /\ pc = "write"
    /\ export_format = "parquet"
    /\ handed' = comp
    /\ \/ /\ fs' = to_parquet(run, idx, data[idx], comp)
          /\ events' = Append(events, <<"write", idx>>)
          /\ pc' = "callback"
          /\ UNCHANGED error
       \/ /\ ~ParquetDocumented(comp)
          /\ pc' = "raised"
          /\ error' = "write primitive: unsupported compression"
          /\ UNCHANGED << fs, events >>
    /\ UNCHANGED << data, export_format, compression, run, idx, comp, mode,
                    header, startrow, total_rows, writer, metrics,
                    fs_at_call >>
    /\ UNCHANGED << gen, session, outer >>

\* A callback that keeps only the latest memory sample.
UpdateMetrics_keep_latest ==
    /\ pc = "callback"
    /\ metrics' = [rows_processed |-> metrics.rows_processed + data[idx],
                   memory_usage |-> << "sample" >>]
    /\ events' = Append(events, <<"cb", idx>>)
    /\ pc' = "account"
    /\ UNCHANGED << data, export_format, compression, run, fs, idx, comp,
                    mode, header, startrow, total_rows, writer, error, handed,
                    fs_at_call >>
    /\ UNCHANGED << gen, session, outer >>

\* _update_metrics counting one per call instead of the rows of the batch.
UpdateMetrics_count_calls ==
    /\ pc = "callback"
    /\ metrics' = [rows_processed |-> metrics.rows_processed + 1,
                   memory_usage |-> Append(metrics.memory_usage, "sample")]
    /\ events' = Append(events, <<"cb", idx>>)
    /\ pc' = "account"
    /\ UNCHANGED << data, export_format, compression, run, fs, idx, comp,
                    mode, header, startrow, total_rows, writer, error, handed,
                    fs_at_call >>
    /\ UNCHANGED << gen, session, outer >>

\* ETLBase._update_metrics, the metrics_callback load hands to save, called
\* with len(chunk).
UpdateMetrics ==
    /\ pc = "callback"
    /\ metrics' = [rows_processed |-> metrics.rows_processed + data[idx],
                   memory_usage |-> Append(metrics.memory_usage, "sample")]
    /\ events' = Append(events, <<"cb", idx>>)
    /\ pc' = "account"
    /\ UNCHANGED << data, export_format, compression, run, fs, idx, comp,
                    mode, header, startrow, total_rows, writer, error, handed,
                    fs_at_call >>
    /\ UNCHANGED << gen, session, outer >>

\* Account with the header flag of CsvSaver.save left set.
Account_keep_header ==
    /\ pc = "account"
    /\ total_rows' = total_rows + data[idx]
    /\ mode' = IF export_format \in {"csv", "json"} THEN "a" ELSE mode
    /\ header' = header
    /\ startrow' = IF export_format = "xlsx" THEN startrow + data[idx]
                   ELSE startrow
    /\ pc' = "iter"
    /\ UNCHANGED << data, export_format, compression, run, fs, idx, comp,
                    writer, metrics, error, handed, fs_at_call, events >>
    /\ UNCHANGED << gen, session, outer >>

\* The rest of the loop body after the callback: total_rows, and the
\* strategy's own position (mode and header, or startrow).
Account ==
    /\ pc = "account"
    /\ total_rows' = total_rows + data[idx]
    /\ mode' = IF export_format \in {"csv", "json"} THEN "a" ELSE mode
    /\ header' = IF export_format = "csv" THEN FALSE ELSE header
    /\ startrow' = IF export_format = "xlsx" THEN startrow + data[idx]
                   ELSE startrow
    /\ pc' = "iter"
    /\ UNCHANGED << data, export_format, compression, run, fs, idx, comp,
                    writer, metrics, error, handed, fs_at_call, events >>
    /\ UNCHANGED << gen, session, outer >>

\* ------------------------------------------------------------ save: return
\* CsvSaver / JsonSaver / ParquetSaver: the sequence is exhausted, save
\* returns total_rows.
SaveReturn ==
    /\ pc = "iter"
    /\ idx = Len(data)
    /\ gen # "created"
    /\ gen' = (IF gen = "running" THEN "exhausted" ELSE gen)
    /\ export_format # "xlsx"
    /\ pc' = "returned"
    /\ UNCHANGED << data, export_format, compression, run, fs, idx, comp,
                    mode, header, startrow, total_rows, writer, metrics,
                    error, handed, fs_at_call, events >>
    /\ session' = (IF gen = "running" THEN SessionEnded("committed")
                   ELSE session)
    /\ UNCHANGED outer

\* ExcelWriter.__exit__ -> close(): the workbook is saved, then the file
\* handle is closed.  When the save raises, close() does not reach the
\* closing of the handle: it stays open until the writer is collected
\* (released TRUE: already collected when save's caller looks).
WriterClosed(w, saved, released) ==
    [w EXCEPT !.open = FALSE, !.handle = ~saved /\ ~released]

\* ExcelSaver: the sequence is exhausted and the `with pd.ExcelWriter` block
\* is left: the workbook is saved to the destination.  A workbook to which
\* no sheet was written cannot be saved: the openpyxl engine raises.
ExcelClose ==
    /\ pc = "iter"
    /\ idx = Len(data)
    /\ gen # "created"
    /\ gen' = (IF gen = "running" THEN "exhausted" ELSE gen)
    /\ export_format = "xlsx"
    /\ IF writer.sheet
       THEN /\ writer' = WriterClosed(writer, TRUE, FALSE)
            /\ fs' = [exists |-> TRUE, lines |-> writer.cells, codec |-> PyNone]
            /\ pc' = "returned"
            /\ UNCHANGED error
       ELSE /\ \E released \in BOOLEAN :
                  writer' = WriterClosed(writer, FALSE, released)
            /\ pc' = "raised"
            /\ error' = "IndexError: At least one sheet must be visible"
            /\ UNCHANGED fs
    /\ UNCHANGED << data, export_format, compression, run, idx, comp, mode,
                    header, startrow, total_rows, metrics, handed, fs_at_call,
                    events >>
    /\ session' = (IF gen = "running" THEN SessionEnded("committed")
                   ELSE session)
    /\ UNCHANGED outer

\* ------------------------------------------------------------ another run
\* The job is run again against the same destination path with the same
\* input: ETLBase.run resets rows_processed (the samples are kept) and load
\* calls save anew.
Restart ==
    /\ pc \in {"returned", "raised"}
    /\ run < MaxRuns
    /\ run' = run + 1
    /\ metrics' = [metrics EXCEPT !.rows_processed = 0]
    /\ pc' = "call"
    /\ idx' = 0
    /\ comp' = compression
    /\ mode' = "w"
    /\ header' = TRUE
    /\ startrow' = 0
    /\ total_rows' = 0
    /\ writer' = NoWriter
    /\ error' = ""
    /\ handed' = NotHanded
    /\ fs_at_call' = fs
    /\ events' = <<>>
    /\ UNCHANGED << data, export_format, compression, fs >>
    /\ UNCHANGED << gen, session, outer >>

Next ==
    \/ CsvEnter
    \/ ExcelEnter
    \/ JsonEnter
    \/ ParquetEnter
    \/ NextChunk
    \/ CsvWrite
    \/ ExcelWrite
    \/ JsonWrite
    \/ ParquetWrite
    \/ UpdateMetrics
    \/ Account
    \/ SaveReturn
    \/ ExcelClose
    \/ Restart

Spec == Init /\ [][Next]_vars

\* ==================================================================== run
MaxRunBatches == 2

\* The batch sequences a run is exercised with.
RunBatchSeqs == { d \in BatchSeqs : Len(d) <= MaxRunBatches }

\* The compression values a run is exercised with.
RunCompressionInputs == { PyNone, PyStr(<<"n","o","n","e">>), INFER, GZIP }

\* A format identifier the registry does not hold.
UnknownFormat == "xml"

\* State after ETLBase.__init__ of a job that is about to be run.
RunInit ==
    /\ data \in RunBatchSeqs
    /\ export_format \in Formats \cup {UnknownFormat}
    /\ compression \in RunCompressionInputs
    /\ run = 1
    /\ fs \in {NoFile, OldFile}
    /\ pc = "none"
    /\ idx = 0
    /\ comp = compression
    /\ mode = "w"
    /\ header = TRUE
    /\ startrow = 0
    /\ total_rows = 0
    /\ writer = NoWriter
    /\ metrics = [rows_processed |-> 0, memory_usage |-> <<>>]
    /\ error = ""
    /\ handed = NotHanded
    /\ fs_at_call = fs
    /\ events = <<>>
    /\ gen = "none"
    /\ rpc = "idle"
    /\ filename = "None"
    /\ send_email \in BOOLEAN
    /\ send_telegram \in BOOLEAN
    /\ source = NoSource
    /\ instances = 0
    /\ saver = 0
    /\ etl_exc = ""
    /\ exit_exc = ""
    /\ report = NoReport
    /\ rlog = <<>>
    /\ observers = <<>>
    /\ notified = NoNotify
    /\ attached_at = [h \in HandlerPool |-> 0]
    /\ nclock = 0
    /\ ExtraIdle

savevars == << data, export_format, compression, run, fs, pc, idx, comp, mode,
               header, startrow, total_rows, writer, metrics, error, handed,
               fs_at_call, events >>

subjectvars == << observers, notified, attached_at, nclock >>

\* What error_handler(log_message, notify=True) does with an exception e
\* leaving the function fn: LoggingDecorator logs it, NotificationDecorator
\* sends the error notification, and it is raised again.
ErrorHandled(fn, e) == << <<"error_log", fn, e>>, <<"error_notify", fn, e>> >>

\* ETLBase.run up to the try block: the parameters are logged, start_time is
\* set and rows_processed reset.
RunStart ==
    /\ rpc = "idle"
    /\ metrics' = [metrics EXCEPT !.rows_processed = 0]
    /\ rlog' = Append(rlog, <<"start", "run", "">>)
    /\ rpc' = "extract"
    /\ UNCHANGED << data, export_format, compression, run, fs, pc, idx, comp,
                    mode, header, startrow, total_rows, writer, error, handed,
                    fs_at_call, events, gen, filename, send_email,
                    send_telegram, source, instances, saver, etl_exc,
                    exit_exc, report, subjectvars, session,
                    extra >>

\* data = self.extract(): extract is a generator function, so the call only
\* creates the generator; nothing of its body has run yet.
CallExtract ==
    /\ rpc = "extract"
    /\ gen' = "created"
    /\ rlog' = Append(rlog, <<"call", "extract", "">>)
    /\ rpc' = "transform"
    /\ UNCHANGED << savevars, filename, send_email, send_telegram, source,
                    instances, saver, etl_exc, exit_exc, report, subjectvars, session,
                    extra >>

\* A transform step that calls extract a second time.
CallTransform_extract_again ==
    /\ rpc = "transform"
    /\ rlog' = Append(Append(rlog, <<"call", "extract", "">>),
                      <<"call", "transform", "">>)
    /\ rpc' = "load"
    /\ UNCHANGED << savevars, gen, filename, send_email, send_telegram,
                    source, instances, saver, etl_exc, exit_exc, report,
                    subjectvars, session,
                    extra >>

\* transformed = self.transform(data): PostgresETL.transform returns data.
CallTransform ==
    /\ rpc = "transform"
    /\ rlog' = Append(rlog, <<"call", "transform", "">>)
    /\ rpc' = "load"
    /\ UNCHANGED << savevars, gen, filename, send_email, send_telegram,
                    source, instances, saver, etl_exc, exit_exc, report,
                    subjectvars, session,
                    extra >>

\* The position of a format in the registry's dictionary.
FormatIndex(f) ==
    CASE f = "csv" -> 1 [] f = "xlsx" -> 2 [] f = "json" -> 3 [] OTHER -> 4

\* A load that derives the artifact path before it looks the format up.
Load_path_first ==
    /\ rpc = "load"
    /\ instances' = instances + Cardinality(Formats)
    /\ filename' = "path"
    /\ IF export_format \notin Formats
       THEN /\ etl_exc' = "KeyError"
            /\ rlog' = Append(Append(rlog, <<"filename", "path", "">>),
                              <<"resolve", export_format, "">>)
                       \o ErrorHandled("load", "KeyError")
            /\ rpc' = "report"
            /\ UNCHANGED << saver, pc, fs_at_call >>
       ELSE /\ saver' = instances + FormatIndex(export_format)
            /\ rlog' = Append(Append(rlog, <<"filename", "path", "">>),
                              <<"resolve", export_format, "">>)
            /\ pc' = "call"
            /\ fs_at_call' = fs
            /\ rpc' = "saving"
            /\ UNCHANGED etl_exc
    /\ UNCHANGED << data, export_format, compression, run, fs, idx, comp,
                    mode, header, startrow, total_rows, writer, metrics,
                    error, handed, events, gen, send_email, send_telegram,
                    source, exit_exc, report, subjectvars, session,
                    extra >>

\* ETLBase.load up to the call of saver.save: saver_strategy_map() builds
\* the dictionary by calling every factory, the format is looked up in it
\* (KeyError for an unknown one), then the artifact path is derived.
Load ==
    /\ rpc = "load"
    /\ instances' = instances + Cardinality(Formats)
    /\ IF export_format \notin Formats
       THEN /\ etl_exc' = "KeyError"
            /\ rlog' = Append(rlog, <<"resolve", export_format, "">>)
                       \o ErrorHandled("load", "KeyError")
            /\ rpc' = "report"
            /\ UNCHANGED << saver, filename, pc, fs_at_call >>
       ELSE /\ saver' = instances + FormatIndex(export_format)
            /\ filename' = "path"
            /\ rlog' = Append(Append(rlog, <<"resolve", export_format, "">>),
                              <<"filename", "path", "">>)
            /\ pc' = "call"
            /\ fs_at_call' = fs
            /\ rpc' = "saving"
            /\ UNCHANGED etl_exc
    /\ UNCHANGED << data, export_format, compression, run, fs, idx, comp,
                    mode, header, startrow, total_rows, writer, metrics,
                    error, handed, events, gen, send_email, send_telegram,
                    source, exit_exc, report, subjectvars, session,
                    extra >>

\* An extract that looks for the query file before the inline query text.
ExtractFailure_file_first(src) ==
    IF ~src.file_exists THEN "FileNotFoundError"
    ELSE IF ~src.file_readable THEN "PermissionError"
    ELSE IF ~src.db_up THEN "OperationalError"
    ELSE ""

\* The exception PostgresETL.extract's body raises before its first yield.
ExtractFailure(src) ==
    IF ~src.sql_text /\ ~src.file_exists THEN "FileNotFoundError"
    ELSE IF ~src.sql_text /\ ~src.file_readable THEN "PermissionError"
    ELSE IF ~src.db_up THEN "OperationalError"
    ELSE ""

\* The first batch is requested from the generator: the body of
\* PostgresETL.extract runs up to its first yield (query text or query file,
\* then the session and the query).  An exception it raises leaves save's
\* for loop; in ExcelSaver.save it leaves the `with pd.ExcelWriter` block,
\* which closes the writer.
ExtractStart ==
    /\ pc = "iter"
    /\ gen = "created"
    /\ \E st \in BOOLEAN, fe \in BOOLEAN, rd \in BOOLEAN, up \in BOOLEAN :
          /\ rd => fe
          /\ source' = [known |-> TRUE, sql_text |-> st, file_exists |-> fe,
                        file_readable |-> rd, db_up |-> up,
                        checked |-> ~st, opened |-> ~st /\ fe]
    /\ session' = (IF ExtractFailure(source') = ""
                   THEN [tx |-> "open", closed |-> FALSE]
                   ELSE IF ExtractFailure(source') = "OperationalError"
                        THEN SessionEnded("rolled_back")
                   ELSE session)
    /\ rlog' = (IF ExtractFailure(source') = "OperationalError"
                THEN Append(rlog, <<"error_log", "session_scope",
                                    "OperationalError">>)
                ELSE rlog)
    /\ IF ExtractFailure(source') = ""
       THEN /\ gen' = "running"
            /\ UNCHANGED << pc, error, writer, fs >>
       ELSE /\ gen' = "failed"
            /\ pc' = "raised"
            /\ IF writer.open /\ writer.sheet
               THEN /\ writer' = WriterClosed(writer, TRUE, FALSE)
                    /\ fs' = [exists |-> TRUE, lines |-> writer.cells,
                              codec |-> PyNone]
                    /\ error' = ExtractFailure(source')
               ELSE IF writer.open
               THEN /\ \E released \in BOOLEAN :
                          writer' = WriterClosed(writer, FALSE, released)
                    /\ error' = "IndexError: At least one sheet must be visible"
                    /\ UNCHANGED fs
               ELSE /\ error' = ExtractFailure(source')
                    /\ UNCHANGED << fs, writer >>
    /\ UNCHANGED << data, export_format, compression, run, idx, comp, mode,
                    header, startrow, total_rows, metrics, handed, fs_at_call,
                    events, rpc, filename, send_email, send_telegram,
                    instances, saver, etl_exc, exit_exc, report,
                    subjectvars, extra >>

\* A later batch is requested and the query fails (the connection is lost):
\* the exception passes session_scope, which rolls back, logs and closes,
\* and leaves save's for loop as in ExtractStart.
ExtractBreak ==
    /\ pc = "iter"
    /\ gen = "running"
    /\ idx >= 1
    /\ gen' = "failed"
    /\ session' = SessionEnded("rolled_back")
    /\ rlog' = Append(rlog, <<"error_log", "session_scope", "OperationalError">>)
    /\ pc' = "raised"
    /\ IF writer.open /\ writer.sheet
       THEN /\ writer' = WriterClosed(writer, TRUE, FALSE)
            /\ fs' = [exists |-> TRUE, lines |-> writer.cells, codec |-> PyNone]
            /\ error' = "OperationalError"
       ELSE IF writer.open
       THEN /\ \E released \in BOOLEAN :
                  writer' = WriterClosed(writer, FALSE, released)
            /\ error' = "IndexError: At least one sheet must be visible"
            /\ UNCHANGED fs
       ELSE /\ error' = "OperationalError"
            /\ UNCHANGED << fs, writer >>
    /\ UNCHANGED << data, export_format, compression, run, idx, comp, mode,
                    header, startrow, total_rows, metrics, handed, fs_at_call,
                    events, rpc, filename, send_email, send_telegram, source,
                    instances, saver, etl_exc, exit_exc, report,
                    subjectvars, extra >>

\* A load that does not look at the total save returned.
LoadReturn_no_total_check ==
    /\ rpc = "saving"
    /\ pc \in {"returned", "raised"}
    /\ etl_exc' = (IF pc = "raised" THEN error ELSE "")
    /\ rlog' = (IF etl_exc' # "" THEN rlog \o ErrorHandled("load", etl_exc')
                ELSE Append(rlog, <<"info", "load", "saved">>))
    /\ rpc' = "report"
    /\ UNCHANGED << savevars, gen, filename, send_email, send_telegram,
                    source, instances, saver, exit_exc, report, subjectvars, session,
                    extra >>

\* A run without the finally block: an exception of load leaves run at once.
LoadReturn_no_finally ==
    /\ rpc = "saving"
    /\ pc \in {"returned", "raised"}
    /\ etl_exc' = (IF pc = "raised" THEN error
                   ELSE IF total_rows = 0 THEN "ValueError: no data to save"
                   ELSE "")
    /\ rlog' = (IF etl_exc' # "" THEN rlog \o ErrorHandled("load", etl_exc')
                ELSE Append(rlog, <<"info", "load", "saved">>))
    /\ rpc' = (IF etl_exc' # "" THEN "exit" ELSE "report")
    /\ UNCHANGED << savevars, gen, filename, send_email, send_telegram,
                    source, instances, saver, exit_exc, report, subjectvars, session,
                    extra >>

\* ETLBase.load after saver.save: an exception of save leaves load through
\* its error_handler; a total of zero rows raises ValueError.  Then run's
\* finally block is entered.
LoadReturn ==
    /\ rpc = "saving"
    /\ pc \in {"returned", "raised"}
    /\ etl_exc' = (IF pc = "raised" THEN error
                   ELSE IF total_rows = 0 THEN "ValueError: no data to save"
                   ELSE "")
    /\ rlog' = (IF etl_exc' # "" THEN rlog \o ErrorHandled("load", etl_exc')
                ELSE Append(rlog, <<"info", "load", "saved">>))
    /\ rpc' = "report"
    /\ UNCHANGED << savevars, gen, filename, send_email, send_telegram,
                    source, instances, saver, exit_exc, report, subjectvars, session,
                    extra >>

\* The environments EmailObserver.__init__ may read.
EmailEnvs == {"complete", "incomplete", "badport"}

\* ETLBase._send_report, called in run's finally block.  Nothing is done
\* without an artifact on disk.  Otherwise the handlers are created and
\* attached (EmailObserver.__init__ raises ValueError when EMAIL_SMTP_PORT is
\* not a number) and the subject notifies.  An exception leaves through the
\* error_handler of _send_report and then leaves the finally block, so
\* _log_metrics is not reached.
SendReport ==
    /\ rpc = "report"
    /\ IF filename = "None" \/ ~fs.exists
       THEN /\ report' = [NoReport EXCEPT !.calls = report.calls + 1]
            /\ rlog' = Append(rlog, <<"report", "skipped", "">>)
            /\ rpc' = "metrics"
       ELSE \E env \in EmailEnvs, tcfg \in BOOLEAN, oks \in SUBSET {1, 2} :
              LET e == Handler(1, "email", env = "complete")
                  t == Handler(2, "telegram", tcfg)
                  o1 == IF send_email THEN attach(<<>>, e) ELSE <<>>
                  o2 == IF send_telegram THEN attach(o1, t) ELSE o1
                  ok == { h \in {e, t} : h.id \in oks }
                  calls == NotifyCalls(o2, ok)
              IN IF send_email /\ env = "badport"
                 THEN /\ report' = [NoReport EXCEPT
                                      !.calls = report.calls + 1,
                                      !.exc = "ValueError: invalid literal for int()"]
                      /\ rlog' = Append(rlog, <<"report", "raised", "">>)
                                 \o ErrorHandled("_send_report",
                                       "ValueError: invalid literal for int()")
                      /\ rpc' = "exit"
                 ELSE /\ (~send_email => env = "complete")
                      /\ (~send_telegram => tcfg)
                      /\ oks \subseteq { o2[i].id : i \in { j \in 1..Len(o2) : Attempts(o2[j]) } }
                      /\ report' = [calls |-> report.calls + 1,
                                    created |-> o2,
                                    dispatched |-> TRUE,
                                    observers |-> o2,
                                    results |-> calls,
                                    exc |-> IF NotifyRaised(calls)
                                            THEN "NotImplementedError" ELSE ""]
                      /\ rlog' = Append(rlog, <<"report", "dispatched", "">>)
                      /\ rpc' = "metrics"
    /\ UNCHANGED << savevars, gen, filename, send_email, send_telegram,
                    source, instances, saver, etl_exc, exit_exc, subjectvars, session,
                    extra >>

\* ETLBase._log_metrics: duration, peak of the samples (0 without samples)
\* and rows_processed are logged.
LogMetrics ==
    /\ rpc = "metrics"
    /\ rlog' = Append(rlog, <<"metrics",
                              IF metrics.memory_usage = <<>> THEN "peak=0"
                              ELSE "peak=max(samples)",
                              "rows_processed">>)
    /\ rpc' = "exit"
    /\ UNCHANGED << savevars, gen, filename, send_email, send_telegram,
                    source, instances, saver, etl_exc, exit_exc, report,
                    subjectvars, session,
                    extra >>

\* run() is left: with the exception that left the finally block (the one of
\* _send_report when it raised, else the one of extract/transform/load),
\* through run's error_handler, or normally.
RunExit ==
    /\ rpc = "exit"
    /\ exit_exc' = (IF report.exc # "" THEN report.exc ELSE etl_exc)
    /\ IF exit_exc' # ""
       THEN /\ rlog' = rlog \o ErrorHandled("run", exit_exc')
            /\ rpc' = "failed"
       ELSE /\ rpc' = "done"
            /\ UNCHANGED rlog
    /\ UNCHANGED << savevars, gen, filename, send_email, send_telegram,
                    source, instances, saver, etl_exc, report, subjectvars, session,
                    extra >>

\* cli.main after etl.run(): the export is logged, or the exception is
\* logged as critical and the process exits with code 1.
CliMain ==
    /\ rpc \in {"done", "failed"}
    /\ exit_code = -1
    /\ exit_code' = (IF rpc = "failed" THEN 1 ELSE 0)
    /\ rlog' = Append(rlog, IF rpc = "failed"
                            THEN <<"cli", "critical", exit_exc>>
                            ELSE <<"cli", "export done", "">>)
    /\ UNCHANGED << savevars, gen, rpc, filename, send_email, send_telegram,
                    source, instances, saver, etl_exc, exit_exc, report,
                    subjectvars, clock, names, files, eh,
                    session >>

RunNext ==
    \/ RunStart
    \/ CallExtract
    \/ CallTransform
    \/ Load
    \/ ExtractStart
    \/ ExtractBreak
    \/ CsvEnter
    \/ ExcelEnter
    \/ JsonEnter
    \/ ParquetEnter
    \/ NextChunk
    \/ CsvWrite
    \/ ExcelWrite
    \/ JsonWrite
    \/ ParquetWrite
    \/ UpdateMetrics
    \/ Account
    \/ SaveReturn
    \/ ExcelClose
    \/ LoadReturn
    \/ SendReport
    \/ LogMetrics
    \/ RunExit
    \/ CliMain

RunSpec == RunInit /\ [][RunNext]_vars

\* ================================================== notification subject
MaxOps == 4

\* State after NotificationSubject.__init__; no job is run.
NotifyInit ==
    /\ data = <<>>
    /\ export_format = "csv"
    /\ compression = PyNone
    /\ run = 1
    /\ fs = NoFile
    /\ pc = "none"
    /\ idx = 0
    /\ comp = PyNone
    /\ mode = "w"
    /\ header = TRUE
    /\ startrow = 0
    /\ total_rows = 0
    /\ writer = NoWriter
    /\ metrics = [rows_processed |-> 0, memory_usage |-> <<>>]
    /\ error = ""
    /\ handed = NotHanded
    /\ fs_at_call = NoFile
    /\ events = <<>>
    /\ gen = "none"
    /\ rpc = "subject"
    /\ filename = "None"
    /\ send_email = FALSE
    /\ send_telegram = FALSE
    /\ source = NoSource
    /\ instances = 0
    /\ saver = 0
    /\ etl_exc = ""
    /\ exit_exc = ""
    /\ report = NoReport
    /\ rlog = <<>>
    /\ observers = <<>>
    /\ notified = NoNotify
    /\ attached_at = [h \in HandlerPool |-> 0]
    /\ nclock = 0
    /\ ExtraIdle

jobvars == << savevars, gen, rpc, filename, send_email, send_telegram, source,
              instances, saver, etl_exc, exit_exc, report, rlog, session,
              extra >>

\* Whether h is in the list obs.
Attached(obs, h) == \E i \in 1..Len(obs) : obs[i] = h

\* subject.attach(h).  attached_at records when h entered the list.
Attach ==
    /\ rpc = "subject"
    /\ nclock < MaxOps
    /\ \E h \in HandlerPool :
          /\ observers' = attach(observers, h)
          /\ attached_at' = (IF Attached(observers, h) THEN attached_at
                             ELSE [attached_at EXCEPT ![h] = nclock + 1])
    /\ nclock' = nclock + 1
    /\ notified' = NoNotify
    /\ UNCHANGED jobvars

\* subject.detach(h).
Detach ==
    /\ rpc = "subject"
    /\ nclock < MaxOps
    /\ \E h \in HandlerPool :
          /\ observers' = detach(observers, h)
          /\ attached_at' = [attached_at EXCEPT ![h] = 0]
    /\ nclock' = nclock + 1
    /\ notified' = NoNotify
    /\ UNCHANGED jobvars

\* subject.notify(message, **kwargs); the deliveries that are attempted
\* succeed for the handlers in ok.
Notify ==
    /\ rpc = "subject"
    /\ \E ok \in SUBSET { h \in HandlerPool : Attached(observers, h) /\ Attempts(h) } :
          notified' = [done |-> TRUE,
                       calls |-> NotifyCalls(observers, ok),
                       raised |-> NotifyRaised(NotifyCalls(observers, ok))]
    /\ UNCHANGED << observers, attached_at, nclock, jobvars >>

NotifyNext ==
    \/ Attach
    \/ Detach
    \/ Notify

NotifySpec == NotifyInit /\ [][NotifyNext]_vars

\* ======================================================== artifact names
MaxClock == 3

\* The clock advances in ticks; strftime('%d.%m.%Y_%H-%M-%S') keeps whole
\* seconds only.
TicksPerSecond == 2

strftime(t) == t \div TicksPerSecond

\* ETLBase._build_filename at clock t: export_<timestamp>.<format><ext>
\* (ext PyNone: no further suffix; else the suffix is "." and the string).
_build_filename(t, fmt, c) ==
    LET n == normalize_compression(c)
    IN [stamp |-> strftime(t),
        format |-> fmt,
        ext |-> IF Truthy(n) /\ n # PyStr(<<"n","o","n","e">>) THEN n
                ELSE PyNone]

\* Two jobs with the same output directory, format and compression.
PathInit ==
    /\ data = <<>>
    /\ export_format \in Formats
    /\ compression \in CompressionInputs
    /\ run = 1
    /\ fs = NoFile
    /\ pc = "none"
    /\ idx = 0
    /\ comp = compression
    /\ mode = "w"
    /\ header = TRUE
    /\ startrow = 0
    /\ total_rows = 0
    /\ writer = NoWriter
    /\ metrics = [rows_processed |-> 0, memory_usage |-> <<>>]
    /\ error = ""
    /\ handed = NotHanded
    /\ fs_at_call = NoFile
    /\ events = <<>>
    /\ gen = "none"
    /\ rpc = "paths"
    /\ filename = "None"
    /\ send_email = FALSE
    /\ send_telegram = FALSE
    /\ source = NoSource
    /\ instances = 0
    /\ saver = 0
    /\ etl_exc = ""
    /\ exit_exc = ""
    /\ report = NoReport
    /\ rlog = <<>>
    /\ observers = <<>>
    /\ notified = NoNotify
    /\ attached_at = [h \in HandlerPool |-> 0]
    /\ nclock = 0
    /\ ExtraIdle

notpaths == << savevars, gen, rpc, filename, send_email, send_telegram, source,
               instances, saver, etl_exc, exit_exc, report, rlog, subjectvars,
               exit_code, eh, session >>

\* Time passes.
Tick ==
    /\ rpc = "paths"
    /\ clock < MaxClock
    /\ clock' = clock + 1
    /\ UNCHANGED << names, files, notpaths >>

\* Job j reaches self.filename = self.generate_filename() in load.
Derive ==
    /\ rpc = "paths"
    /\ \E j \in Jobs :
          /\ names[j] = NoName
          /\ names' = [names EXCEPT
                         ![j] = _build_filename(clock, export_format, compression)]
    /\ UNCHANGED << clock, files, notpaths >>

\* The strategy of job j writes its file at the path job j derived (CsvSaver
\* removes what is there first, the others replace it).
WriteFile ==
    /\ rpc = "paths"
    /\ \E j \in Jobs :
          /\ names[j] # NoName
          /\ \A w \in files : w[2] # j
          /\ files' = files \cup { << names[j], j >> }
    /\ UNCHANGED << clock, names, notpaths >>

PathNext ==
    \/ Tick
    \/ Derive
    \/ WriteFile

PathSpec == PathInit /\ [][PathNext]_vars

\* ========================================================= error_handler
MaxRetries == 2

\* What one invocation of the wrapped function does: it returns, or raises
\* one of two exceptions.
Outcomes == {"ok", "e1", "e2"}

\* A call of a function wrapped by error_handler; no job is run.
HandlerInit ==
    /\ data = <<>>
    /\ export_format = "csv"
    /\ compression = PyNone
    /\ run = 1
    /\ fs = NoFile
    /\ pc = "none"
    /\ idx = 0
    /\ comp = PyNone
    /\ mode = "w"
    /\ header = TRUE
    /\ startrow = 0
    /\ total_rows = 0
    /\ writer = NoWriter
    /\ metrics = [rows_processed |-> 0, memory_usage |-> <<>>]
    /\ error = ""
    /\ handed = NotHanded
    /\ fs_at_call = NoFile
    /\ events = <<>>
    /\ gen = "none"
    /\ rpc = "handler"
    /\ filename = "None"
    /\ send_email = FALSE
    /\ send_telegram = FALSE
    /\ source = NoSource
    /\ instances = 0
    /\ saver = 0
    /\ etl_exc = ""
    /\ exit_exc = ""
    /\ report = NoReport
    /\ rlog = <<>>
    /\ observers = <<>>
    /\ notified = NoNotify
    /\ attached_at = [h \in HandlerPool |-> 0]
    /\ nclock = 0
    /\ ExtraIdle

noteh == << savevars, gen, rpc, filename, send_email, send_telegram, source,
            instances, saver, etl_exc, exit_exc, report, rlog, subjectvars,
            clock, names, files, exit_code, session >>

\* The exception of the latest attempt.
LastExc(c) == c.attempts[Len(c.attempts)]

\* The function returned by error_handler(retries, notify) is called: the
\* wrappers of NotificationDecorator, LoggingDecorator and RetryDecorator
\* are entered, in this order.
EhCall ==
    /\ rpc = "handler"
    /\ eh.pos = "none"
    /\ \E r \in 0..MaxRetries, n \in BOOLEAN :
          eh' = [pos |-> "retry", retries |-> r, notify |-> n,
                 attempts |-> <<>>, trace |-> <<>>]
    /\ UNCHANGED noteh

\* A retry loop that makes one attempt more than range(retries + 1).
EhAttempt_one_more ==
    /\ rpc = "handler"
    /\ eh.pos = "retry"
    /\ \E out \in Outcomes :
          eh' = [eh EXCEPT
                   !.attempts = Append(@, out),
                   !.trace = IF out = "ok"
                             THEN @ \o << <<"call", out>>, <<"return", out>> >>
                             ELSE Append(@, <<"call", out>>),
                   !.pos = IF out = "ok" THEN "returned"
                           ELSE IF Len(eh.attempts) = eh.retries + 1
                                THEN "logging"
                           ELSE "retry"]
    /\ UNCHANGED noteh

\* One iteration of RetryDecorator's loop: the function is invoked; its
\* result is returned, or its exception is swallowed unless this was attempt
\* number `retries`, which raises it to LoggingDecorator.
EhAttempt ==
    /\ rpc = "handler"
    /\ eh.pos = "retry"
    /\ \E out \in Outcomes :
          eh' = [eh EXCEPT
                   !.attempts = Append(@, out),
                   !.trace = IF out = "ok"
                             THEN @ \o << <<"call", out>>, <<"return", out>> >>
                             ELSE Append(@, <<"call", out>>),
                   !.pos = IF out = "ok" THEN "returned"
                           ELSE IF Len(eh.attempts) = eh.retries
                                THEN "logging"
                           ELSE "retry"]
    /\ UNCHANGED noteh

\* LoggingDecorator's except block: logger.error, then raise.
EhLog ==
    /\ rpc = "handler"
    /\ eh.pos = "logging"
    /\ eh' = [eh EXCEPT !.trace = Append(@, <<"log", LastExc(eh)>>),
                        !.pos = "notifying"]
    /\ UNCHANGED noteh

\* NotificationDecorator's except block: the notification when notify is
\* set, then raise to the caller.
EhNotify ==
    /\ rpc = "handler"
    /\ eh.pos = "notifying"
    /\ eh' = [eh EXCEPT
                !.trace = (IF eh.notify
                           THEN Append(@, <<"notify", LastExc(eh)>>)
                           ELSE @) \o << <<"raise", LastExc(eh)>> >>,
                !.pos = "raised"]
    /\ UNCHANGED noteh

HandlerNext ==
    \/ EhCall
    \/ EhAttempt
    \/ EhLog
    \/ EhNotify

HandlerSpec == HandlerInit /\ [][HandlerNext]_vars

\* ================================================================ claims
\* Positions of the event <<kind, b>> in the history of the current save.
EvIdx(kind, b) == { p \in 1..Len(events) : events[p] = <<kind, b>> }

\* Number of metrics-callback invocations of the current save.
CallbackCount == Cardinality({ p \in 1..Len(events) : events[p][1] = "cb" })

NonEmpty == { b \in 1..Len(data) : data[b] > 0 }

Ceil(n, c) == (n + c - 1) \div c

\* d is what a reader with chunk size c yields: every batch but the last has
\* exactly c rows, the last has at most c.
IsChunking(d, c) ==
    \A i \in 1..Len(d) : IF i < Len(d) THEN d[i] = c ELSE d[i] <= c

RECURSIVE ExpectedRowsUpTo(_)
\* The rows of the batches 1..k of the current run, in input order.
ExpectedRowsUpTo(k) ==
    IF k = 0 THEN <<>> ELSE ExpectedRowsUpTo(k - 1) \o Rows(run, k, data[k])

\* C1: when the batches are a chunking by c of n rows, then once save has
\* returned the rows-processed counter equals n and the metrics callback was
\* invoked exactly ceil(n / c) times.
C1_RowsAndBatchCount ==
    pc = "returned" =>
        \A c \in 1..MaxRows :
            IsChunking(data, c) =>
                /\ metrics.rows_processed = SumSeq(data)
                /\ CallbackCount = Ceil(SumSeq(data), c)

\* C1 witness: 5 rows in chunks of 2 (2, 2, 1) have been saved.
C1_Witness ==
    /\ pc = "returned"
    /\ data = <<2, 2, 1>>
    /\ metrics.rows_processed = 5
    /\ CallbackCount = 3

\* C2: batches are requested once each, in forward order; before batch b is
\* requested every earlier non-empty batch has been written and, after that,
\* its callback has run; a callback runs at most once per batch, only for a
\* non-empty batch and after its write; once save has returned every
\* non-empty batch had exactly one callback.
C2_Sequential ==
    /\ \A p \in 1..Len(events) :
          events[p][1] = "req" =>
              /\ events[p][2] =
                    1 + Cardinality({ q \in 1..(p - 1) : events[q][1] = "req" })
              /\ \A b \in 1..(events[p][2] - 1) :
                    data[b] > 0 =>
                        \E w \in EvIdx("write", b), k \in EvIdx("cb", b) :
                            w < k /\ k < p
    /\ \A b \in 1..Len(data) :
          /\ Cardinality(EvIdx("cb", b)) <= 1
          /\ Cardinality(EvIdx("write", b)) <= 1
          /\ \A k \in EvIdx("cb", b) :
                data[b] > 0 /\ \E w \in EvIdx("write", b) : w < k
    /\ pc = "returned" =>
          \A b \in NonEmpty : Cardinality(EvIdx("cb", b)) = 1

\* C2 witness: the third batch is requested after two non-empty batches were
\* written and counted.
C2_Witness ==
    /\ Len(data) = 3
    /\ data[1] > 0 /\ data[2] > 0
    /\ EvIdx("req", 3) # {}
    /\ EvIdx("cb", 2) # {}

\* C3: an empty batch causes no write and no callback, and does not end the
\* traversal: once save has returned, every batch was requested and every
\* non-empty batch was written and counted.
C3_EmptyBatchSkipped ==
    /\ \A b \in 1..Len(data) :
          data[b] = 0 => EvIdx("write", b) = {} /\ EvIdx("cb", b) = {}
    /\ pc = "returned" =>
          /\ idx = Len(data)
          /\ \A b \in NonEmpty : EvIdx("write", b) # {} /\ EvIdx("cb", b) # {}
          /\ total_rows = SumSeq(data)

\* C3 witness: a non-empty batch after an empty one was written and counted.
C3_Witness ==
    /\ pc = "returned"
    /\ Len(data) = 3
    /\ data[1] > 0 /\ data[2] = 0 /\ data[3] > 0
    /\ EvIdx("write", 3) # {} /\ EvIdx("cb", 3) # {}

\* C4 (as claimed): once save has returned, the destination holds no content
\* of a file that existed there before the call.
C4_OldContentRemoved ==
    pc = "returned" =>
        \A p \in 1..Len(fs.lines) : fs.lines[p][2] = run

\* C5: after the same save has run again against the same path and returned,
\* the file holds no row or header of an earlier run, and when the input has
\* a non-empty batch every line of the file is of the latest run.
C5_SecondRunOnly ==
    (run >= 2 /\ pc = "returned") =>
        /\ \A p \in 1..Len(fs.lines) : fs.lines[p][2] \notin 1..(run - 1)
        /\ NonEmpty # {} =>
              /\ fs.exists
              /\ Len(fs.lines) > 0
              /\ \A p \in 1..Len(fs.lines) : fs.lines[p][2] = run

\* C5 witness: the first run left lines at the path and the second run, with
\* several non-empty batches, has returned.
C5_Witness ==
    /\ run = 2
    /\ pc = "returned"
    /\ Len(fs_at_call.lines) > 0
    /\ fs_at_call.lines[1][2] = 1
    /\ Cardinality(NonEmpty) >= 2
    /\ fs.exists

\* The first non-empty batch of the input.
FirstNonEmpty == CHOOSE b \in NonEmpty : \A b2 \in NonEmpty : b <= b2

\* C6: in the file the delimited-text strategy is writing, the first line is
\* the header, written with the first non-empty batch, and no other line is
\* a header; two one-row batches give header, row, row and a total of 2.
C6_CsvHeaderOnce ==
    export_format = "csv" =>
        /\ (fs.exists /\ pc # "call") =>
              /\ fs.lines[1] = HeaderLine(run, FirstNonEmpty)
              /\ \A p \in 2..Len(fs.lines) : IsRow(fs.lines[p])
        /\ (pc = "returned" /\ NonEmpty # {}) => fs.exists
        /\ (pc = "returned" /\ data = <<1, 1>>) =>
              /\ fs.lines = << HeaderLine(run, 1), RowLine(run, 1, 1),
                               RowLine(run, 2, 1) >>
              /\ metrics.rows_processed = 2
              /\ total_rows = 2

\* C6 witness: empty batch first, then two non-empty batches, saved as CSV.
C6_Witness ==
    /\ export_format = "csv"
    /\ pc = "returned"
    /\ Len(data) = 3
    /\ data[1] = 0 /\ data[2] > 0 /\ data[3] > 0
    /\ fs.lines[1] = HeaderLine(run, 2)
    /\ Len(fs.lines) = 1 + data[2] + data[3]

\* C7 (as claimed): once save has returned, the data rows read back from a
\* delimited-text or line-delimited file are the rows of all batches in
\* input order.
C7_RoundTrip ==
    (pc = "returned" /\ export_format \in {"csv", "json"}) =>
        SelectRows(fs.lines) = ExpectedRowsUpTo(Len(data))

\* C8 (as claimed): in the spreadsheet strategy every data row of every batch
\* written so far is still on the sheet (no later batch overwrote it).
C8_ExcelNoOverwrite ==
    export_format = "xlsx" =>
        \A b \in 1..Len(data) :
            EvIdx("write", b) # {} =>
                \A i \in 1..data[b] :
                    \E p \in 1..Len(writer.cells) :
                        writer.cells[p] = RowLine(run, b, i)

\* The submitted values that mean "no compression".
NoCompressionValues ==
    { PyNone,
      PyStr(<<>>),
      PyStr(<<"n","o","n","e">>),
      PyStr(<<"N","o","n","e">>),
      PyStr(<<"N","O","N","E">>),
      PyStr(<<"n","u","l","l">>),
      PyStr(<<"N","U","L","L">>),
      PyStr(<<" ","n","o","n","e"," ">>) }

\* C9: the spreadsheet strategy called with a compression that is neither a
\* no-compression value nor "infer" has raised as soon as it has started,
\* with the destination as it was at the call, no writer session opened and
\* no batch requested.
C9_ExcelCompressionRefused ==
    (/\ export_format = "xlsx"
     /\ pc # "call"
     /\ compression \notin NoCompressionValues \cup {INFER}) =>
        /\ pc = "raised"
        /\ error = "ValueError: Excel format doesn't support compression"
        /\ fs = fs_at_call
        /\ ~writer.open
        /\ ~writer.sheet
        /\ idx = 0
        /\ events = <<>>

\* C9 witness: gzip was refused for a spreadsheet with a file already at the
\* destination.
C9_Witness ==
    /\ export_format = "xlsx"
    /\ compression = GZIP
    /\ pc = "raised"
    /\ fs_at_call = OldFile
    /\ fs = OldFile

\* C10 (as claimed): for every submitted no-compression value, the value
\* handed to the write primitive is the no-compression value None.
C10_NoCompressionHanded ==
    (compression \in NoCompressionValues /\ handed # NotHanded) =>
        handed = PyNone

\* ------------------------------------------------------------ run claims
\* The positions of the rlog entries of kind k.
LogIdx(k) == { p \in 1..Len(rlog) : rlog[p][1] = k }

\* The run positions before load is entered, and those after load ended.
BeforeLoad == {"idle", "extract", "transform", "load"}
Ended == {"done", "failed"}

\* C11: the strategy is resolved exactly once per run, during load and not
\* before; for a known format the strategy used is an instance created by
\* that resolution; for an unknown format load fails before an artifact path
\* is derived and before a file is created or touched.
C11_ResolvedOnceInLoad ==
    /\ rpc \in BeforeLoad =>
          LogIdx("resolve") = {} /\ instances = 0 /\ saver = 0
    /\ rpc \notin BeforeLoad =>
          /\ Cardinality(LogIdx("resolve")) = 1
          /\ instances = Cardinality(Formats)
          /\ \A p \in LogIdx("resolve"), q \in LogIdx("filename") : p < q
    /\ (rpc \notin BeforeLoad /\ export_format \in Formats) =>
          saver \in 1..instances /\ filename = "path"
    /\ (rpc \notin BeforeLoad /\ export_format \notin Formats) =>
          /\ etl_exc = "KeyError"
          /\ saver = 0
          /\ filename = "None"
          /\ LogIdx("filename") = {}
          /\ pc = "none"
          /\ fs = fs_at_call

C11_Witness ==
    /\ rpc = "failed"
    /\ export_format = UnknownFormat
    /\ exit_exc = "KeyError"
    /\ filename = "None"

\* The stage a run position belongs to.
Stage(r) ==
    CASE r = "idle" -> "Idle"
      [] r = "extract" -> "Extracting"
      [] r = "transform" -> "Transforming"
      [] r \in {"load", "saving"} -> "Loading"
      [] r \in {"report", "metrics", "exit"} -> "Reporting"
      [] r = "done" -> "Done"
      [] OTHER -> "Failed"

StageSuccessors(st) ==
    CASE st = "Idle" -> {"Extracting"}
      [] st = "Extracting" -> {"Transforming"}
      [] st = "Transforming" -> {"Loading"}
      [] st = "Loading" -> {"Loading", "Reporting"}
      [] st = "Reporting" -> {"Reporting", "Done", "Failed"}
      [] OTHER -> {}

\* C12: a run passes through Idle, Extracting, Transforming, Loading,
\* Reporting, Done in this order, Reporting is entered only after load has
\* ended, and no failure arises outside the first four stages: a run that
\* ends in Failed carries an exception of extract, transform or load.
C12_StageOrder ==
    /\ [][Stage(rpc') \in StageSuccessors(Stage(rpc))]_vars
    /\ [](Stage(rpc) = "Reporting" => pc \in {"none", "returned", "raised"})
    /\ [](report.exc = "")
    /\ [](rpc = "failed" => etl_exc # "")

\* C13: in a run that has started the reporting step is executed exactly
\* once, after extract, transform and load succeeded or one of them raised:
\* not before load has ended, and once from then on.
C13_ReportOnce ==
    /\ rpc \in BeforeLoad \cup {"saving"} => report.calls = 0
    /\ rpc \in {"metrics", "exit", "done", "failed"} =>
          report.calls = 1 /\ Cardinality(LogIdx("report")) = 1

C13_Witness ==
    /\ rpc = "failed"
    /\ etl_exc = "FileNotFoundError"
    /\ report.calls = 1

\* The handlers _send_report is configured to attach, email before telegram.
ConfiguredKinds ==
    (IF send_email THEN <<"email">> ELSE <<>>)
    \o (IF send_telegram THEN <<"telegram">> ELSE <<>>)

\* C14: reporting dispatches a message iff an artifact path was recorded and
\* a file exists at it; a dispatch goes to exactly the configured channels,
\* email before telegram; without an artifact no handler is created or
\* invoked.
C14_DispatchIffArtifact ==
    report.calls = 1 =>
       /\ report.dispatched <=> (filename # "None" /\ fs.exists)
       /\ report.dispatched =>
             /\ Len(report.observers) = Len(ConfiguredKinds)
             /\ \A i \in 1..Len(report.observers) :
                   report.observers[i].kind = ConfiguredKinds[i]
       /\ ~(filename # "None" /\ fs.exists) =>
             report.created = <<>> /\ report.results = <<>>

\* C15: a failure inside reporting never changes the outcome of the run:
\* run() raises iff extract, transform or load raised, and the exception
\* that reaches the caller is theirs.
C15_ReportingNeverDecides ==
    rpc \in Ended =>
       /\ rpc = "failed" <=> etl_exc # ""
       /\ exit_exc = etl_exc

\* ----------------------------------------------- notification claims
\* Whether h is one of the two channels.
IsChannel(h) == h.kind \in {"email", "telegram"}

\* C16: when update of an attached handler raises, notify catches it, does
\* not raise, and still invokes every handler attached after it.
C16_NotifyCatches ==
    notified.done =>
       /\ ~notified.raised
       /\ Len(notified.calls) = Len(observers)

\* C17: after any attach and detach calls notify invokes update once on each
\* attached handler, in attachment order; attaching twice adds no second
\* entry and a detached handler is not invoked.
C17_EachOnceInOrder ==
    /\ \A i, j \in 1..Len(observers) : i # j => observers[i] # observers[j]
    /\ \A h \in HandlerPool : Attached(observers, h) <=> attached_at[h] > 0
    /\ \A i, j \in 1..Len(observers) :
          i < j => attached_at[observers[i]] < attached_at[observers[j]]
    /\ notified.done =>
          /\ Len(notified.calls) = Len(observers)
          /\ \A i \in 1..Len(notified.calls) :
                notified.calls[i][1] = observers[i]

\* C18: a channel with an incomplete configuration returns False from update
\* without attempting a delivery and without raising; when the first of two
\* attached channels is incomplete, the second is still invoked and notify
\* does not raise.
C18_IncompleteReturnsFalse ==
    notified.done =>
       /\ \A i \in 1..Len(notified.calls) :
             (IsChannel(notified.calls[i][1])
                 /\ ~notified.calls[i][1].configured)
             => notified.calls[i][2] = "False" /\ ~notified.calls[i][3]
       /\ (/\ Len(observers) = 2
           /\ IsChannel(observers[1]) /\ IsChannel(observers[2])
           /\ ~observers[1].configured)
          => /\ Len(notified.calls) = 2
             /\ notified.calls[2][1] = observers[2]
             /\ ~notified.raised

C18_Witness ==
    /\ notified.done
    /\ observers = << Handler(2, "email", FALSE), Handler(3, "telegram", TRUE) >>
    /\ notified.calls[1][2] = "False"
    /\ notified.calls[2][2] = "True"

\* ------------------------------------------------------ run claims, cont.
\* The extraction ran to its end and yielded no batch or only empty ones.
NoDataExtracted ==
    /\ export_format \in Formats
    /\ source.known
    /\ ExtractFailure(source) = ""
    /\ gen = "exhausted"
    /\ \A i \in 1..Len(data) : data[i] = 0

\* C19: for every format a run whose extraction yields no batch or only
\* empty batches fails with the "no data to save" error of load, no file
\* exists at the artifact path afterwards and no completion message is
\* dispatched.
C19_NoDataNoArtifact ==
    (rpc \in Ended /\ NoDataExtracted) =>
       /\ rpc = "failed"
       /\ etl_exc = "ValueError: no data to save"
       /\ ~fs.exists
       /\ ~report.dispatched

\* C20: a run that has started logs its final metrics exactly once, after
\* reporting, whether it ends in Done or in Failed; without memory samples
\* the peak is reported as 0.
C20_MetricsOnce ==
    rpc \in Ended =>
       /\ Cardinality(LogIdx("metrics")) = 1
       /\ \A p \in LogIdx("report"), q \in LogIdx("metrics") : p < q
       /\ \A q \in LogIdx("metrics") :
             metrics.memory_usage = <<>> => rlog[q][2] = "peak=0"

\* ---------------------------------------------------------- metrics claims
\* Number of write-primitive calls of the current save that wrote a batch.
WriteCount == Cardinality({ p \in 1..Len(events) : events[p][1] = "write" })

\* C21: within a run the rows-processed counter never decreases and changes
\* only in the metrics callback; the sample sequence only grows, by one
\* sample per callback; the callbacks of the run are as many as the
\* non-empty batches written so far (one less while the callback of the
\* batch just written is still to be made).
C21_MetricsMonotone ==
    /\ [][run' = run =>
            /\ metrics'.rows_processed >= metrics.rows_processed
            /\ metrics' # metrics => pc = "callback" /\ pc' = "account"
            /\ (pc = "callback" /\ pc' = "account") =>
                  metrics'.memory_usage
                     = Append(metrics.memory_usage,
                              metrics'.memory_usage[Len(metrics'.memory_usage)])
            /\ Len(metrics'.memory_usage) >= Len(metrics.memory_usage)]_vars
    /\ [](CallbackCount = WriteCount - (IF pc = "callback" THEN 1 ELSE 0))
    /\ [](\A b \in NonEmpty : b < idx => EvIdx("cb", b) # {} \/ error # "")

C21_Witness ==
    /\ run = 2
    /\ CallbackCount = 2
    /\ Len(metrics.memory_usage) >= 4
    /\ metrics.rows_processed > 0

\* ---------------------------------------------------- artifact name claims
\* C22: two runs with the same output directory, format and compression,
\* concurrent or back to back, derive different artifact paths, so that no
\* file is written by both.
C22_DistinctPaths ==
    /\ \A j, k \in Jobs :
          (j # k /\ names[j] # NoName /\ names[k] # NoName)
          => names[j] # names[k]
    /\ \A v, w \in files : v[1] = w[1] => v[2] = w[2]

\* The compression values that name a codec: neither a value that means no
\* compression nor 'infer'.
NamesCodec(c) == normalize_compression(c) # PyNone /\ c # INFER

\* C23: the derived name is export_<timestamp>.<format>, followed by a
\* compression extension only when a named codec is configured; for every
\* compression value that means no compression the name ends with the
\* format identifier.
C23_NameShape ==
    \A j \in Jobs :
       names[j] # NoName =>
          /\ names[j].format = export_format
          /\ names[j].stamp <= strftime(clock)
          /\ names[j].ext # PyNone => NamesCodec(compression)
          /\ normalize_compression(compression) = PyNone
             => names[j].ext = PyNone

\* ----------------------------------------------------------- outcome claims
\* The fatal conditions of a run.
UnknownFormatGiven == export_format \notin Formats

ZeroTotalRows == rpc \notin BeforeLoad \cup {"saving"} /\ pc = "returned"
                 /\ total_rows = 0

ExtractionFailed == source.known /\ ExtractFailure(source) # ""

IllegalCompression ==
    /\ export_format = "xlsx"
    /\ Truthy(normalize_compression(compression))
    /\ normalize_compression(compression) # INFER

\* C24: run() raises on each fatal condition (unknown format, zero total
\* rows, extraction failure, illegal compression for the format) and the CLI
\* then exits with code 1; run() returns normally only when a file exists at
\* the recorded artifact path and at least one row was written to it.
C24_OutcomeSignal ==
    /\ rpc \in Ended =>
          ((UnknownFormatGiven \/ ZeroTotalRows \/ ExtractionFailed
               \/ IllegalCompression)
           => rpc = "failed" /\ exit_exc # "")
    /\ exit_code # -1 => (exit_code = 1 <=> rpc = "failed")
    /\ rpc = "done" =>
          /\ filename = "path"
          /\ fs.exists
          /\ total_rows >= 1
          /\ \E i \in 1..Len(fs.lines) :
                IsRow(fs.lines[i]) /\ fs.lines[i][2] = run

C24_Witness ==
    /\ exit_code = 1
    /\ ZeroTotalRows
    /\ exit_exc = "ValueError: no data to save"

\* -------------------------------------------------------- extraction claims
\* The error log entries of the wrapped function fn carrying exception e.
Logged(fn, e) ==
    \E p \in 1..Len(rlog) : rlog[p] = <<"error_log", fn, e>>

\* C25: an exception raised inside run, load, extract or report is logged
\* with the stage message of that operation before it reaches the caller,
\* and the caller receives the original exception; a missing query file with
\* no inline query text reaches run()'s caller as the file-not-found error.
C25_LoggedAndPreserved ==
    /\ rpc = "failed" => Logged("run", exit_exc)
    /\ (rpc \in Ended /\ etl_exc # "") => Logged("load", etl_exc)
    /\ (rpc \in Ended /\ report.exc # "") => Logged("_send_report", report.exc)
    /\ (rpc \in Ended /\ ExtractionFailed) =>
          /\ Logged("extract", ExtractFailure(source))
          /\ exit_exc = ExtractFailure(source)

\* C26: with an inline query text extraction neither checks nor reads the
\* query file; a missing or unreadable query file makes extraction fail only
\* when no inline query text is given (a failure before the first batch,
\* idx = 0, with the database up is a failure of the query file).
C26_InlineTextFirst ==
    source.known =>
       /\ source.sql_text =>
             /\ ~source.checked
             /\ ~source.opened
             /\ (gen = "failed" /\ idx = 0) => ~source.db_up
       /\ (gen = "failed" /\ idx = 0 /\ source.db_up) =>
             /\ ~source.sql_text
             /\ ~source.file_exists \/ ~source.file_readable

C26_Witness ==
    /\ source.known
    /\ source.sql_text
    /\ ~source.file_exists
    /\ gen = "exhausted"
    /\ rpc = "done"

\* Number of rlog entries <<"call", fn, "">>.
CallsOf(fn) == Cardinality({ p \in 1..Len(rlog) : rlog[p] = <<"call", fn, "">> })

\* C27 as stated: in one run extract, transform and load are each invoked
\* once, exactly one artifact path is derived, and at most one output file
\* is created or written.
C27_OncePerRun ==
    /\ rpc \in Ended =>
          /\ CallsOf("extract") = 1
          /\ CallsOf("transform") = 1
          /\ Cardinality(LogIdx("resolve")) = 1
          /\ Cardinality(LogIdx("filename")) = 1
    /\ fs # fs_at_call => filename = "path"

\* C27 amended: in one run extract, transform and load are each invoked
\* once; one artifact path is derived when the format is known and none when
\* it is unknown; only the file at the derived path is created or written.
C27_OncePerRunAtMostOnePath ==
    /\ rpc \in Ended =>
          /\ CallsOf("extract") = 1
          /\ CallsOf("transform") = 1
          /\ Cardinality(LogIdx("resolve")) = 1
          /\ Cardinality(LogIdx("filename"))
                = (IF export_format \in Formats THEN 1 ELSE 0)
    /\ fs # fs_at_call => filename = "path"
    /\ rpc \in BeforeLoad => fs = fs_at_call

C27_Witness ==
    /\ rpc = "done"
    /\ CallsOf("extract") = 1
    /\ Cardinality(LogIdx("filename")) = 1
    /\ fs # fs_at_call

\* C28: a file handle or writer session a strategy opens is opened during
\* load only and is released on every exit path of save: none is open once
\* save, and with it load, has returned or raised.
C28_HandlesReleased ==
    /\ rpc # "saving" => ~writer.open /\ ~writer.handle
    /\ pc \in {"returned", "raised"} => ~writer.open /\ ~writer.handle

\* ------------------------------------------------------------- total claim
\* C29: for every strategy and every sequence of batches the total save
\* returns equals the number of data rows in the destination file after save
\* has returned; the columnar-binary file holds the rows of all batches.
C29_TotalIsRowsInFile ==
    pc = "returned" =>
       /\ total_rows = Len(SelectRows(fs.lines))
       /\ SelectRows(fs.lines) = ExpectedRowsUpTo(Len(data))

\* ----------------------------------------------------- error_handler claim
\* The positions of the trace entries of kind k of the current wrapped call.
TraceIdx(k) == { p \in 1..Len(eh.trace) : eh.trace[p][1] = k }

\* C30: a function wrapped by error_handler(retries = r) is invoked at most
\* r + 1 times per call; the first success is returned with no further
\* attempt and no log or notification; only after r + 1 failures in a row is
\* the last exception logged once, then notified once when notify is set,
\* then raised again.
C30_RetryThenLogNotifyRaise ==
    /\ Len(eh.attempts) <= eh.retries + 1
    /\ Cardinality(TraceIdx("call")) = Len(eh.attempts)
    /\ \A i \in 1..(Len(eh.attempts) - 1) : eh.attempts[i] # "ok"
    /\ eh.pos = "returned" =>
          /\ LastExc(eh) = "ok"
          /\ TraceIdx("log") = {} /\ TraceIdx("notify") = {}
          /\ TraceIdx("raise") = {}
    /\ (TraceIdx("log") \cup TraceIdx("notify") \cup TraceIdx("raise")) # {} =>
          /\ Len(eh.attempts) = eh.retries + 1
          /\ LastExc(eh) # "ok"
    /\ eh.pos = "raised" =>
          /\ Cardinality(TraceIdx("log")) = 1
          /\ Cardinality(TraceIdx("notify")) = (IF eh.notify THEN 1 ELSE 0)
          /\ Cardinality(TraceIdx("raise")) = 1
          /\ \A c \in TraceIdx("call"), l \in TraceIdx("log"),
                r \in TraceIdx("raise") :
                /\ c < l /\ l < r
                /\ eh.trace[l][2] = LastExc(eh)
                /\ eh.trace[r][2] = LastExc(eh)
                /\ \A n \in TraceIdx("notify") :
                      l < n /\ n < r /\ eh.trace[n][2] = LastExc(eh)

C30_Witness ==
    /\ eh.pos = "raised"
    /\ eh.retries = 2
    /\ eh.notify
    /\ eh.attempts = << "e1", "e2", "e1" >>

\* ------------------------------------------------- failure-path claims
\* C31: the completion message is dispatched only for runs whose load
\* succeeded; a run in which extraction or a write failed after a batch had
\* been written to the destination dispatches none.
C31_CompletionOnlyOnSuccess ==
    /\ report.dispatched => etl_exc = ""
    /\ (report.calls = 1 /\ pc = "raised" /\ WriteCount >= 1)
       => ~report.dispatched

\* C32: a single failure during load gives exactly one error notification
\* and one error log entry for the run, although load is nested in run.
C32_OneLogOneNotification ==
    (rpc \in Ended /\ etl_exc # "" /\ report.exc = "") =>
       /\ Cardinality(LogIdx("error_notify")) = 1
       /\ Cardinality(LogIdx("error_log")) = 1

\* C33: when extraction fails before it yields a batch, the run fails while
\* still in the Extracting stage: no strategy was resolved, no artifact path
\* was recorded, and no file at the destination was removed or created.
C33_ExtractFailsBeforeLoad ==
    ExtractionFailed =>
       /\ LogIdx("resolve") = {}
       /\ saver = 0
       /\ filename = "None"
       /\ fs = fs_at_call

====
